---------------------------- MODULE Spec2Model ----------------------------
(***************************************************************************)
(* A model of hcipy/atmosphere/atmospheric_model.py: the abstract          *)
(* AtmosphericLayer, the MultiLayerAtmosphere that composes layers into a  *)
(* chain of optical elements, and the turbulence-strength conversions.     *)
(***************************************************************************)
EXTENDS Integers, Sequences, FiniteSets

VARIABLES
    layers,         \* MultiLayerAtmosphere._layers: sequence of layer objects
    scintillation,  \* MultiLayerAtmosphere._scintillation
    dirty,          \* MultiLayerAtmosphere._dirty
    elements,       \* MultiLayerAtmosphere.elements: the chain
    t,              \* MultiLayerAtmosphere._t
    last,           \* the most recent call: its name, arguments, calls made, result
    conv            \* the most recent call of a strength-conversion function

vars == <<layers, scintillation, dirty, elements, t, last, conv>>

-----------------------------------------------------------------------------
(* Bounds of the model *)

\* longest sequence of layers assigned to a composite that is then operated on
MaxLayers == 2

\* longest sequence of layers a chain is built from, a strength is spread over
\* or a phase is summed over
MaxInputLayers == 3

\* heights of the layers of a composite that is then operated on
SmallHeights == {0, 5}

Heights == {-5, 0, 5, 10}

Times == {1, 2}

\* wavelengths a phase is asked for
Wavelengths == {1, 2}

\* wavelengths of the wavefronts sent through the composite
BeamWavelengths == {1}

Grids == {"g1", "g2"}

\* phase screens at the reference wavelength, one value per grid point
Screens == {<<1, 2>>, <<3, 1>>}

\* strengths a layer is constructed with
CnValues == {0, 1, 3}

\* totals the aggregate strength is set to
CnTargets == {0, 2, 5}

-----------------------------------------------------------------------------
(* Exact arithmetic on rationals <<n, d>> with d > 0 in lowest terms;      *)
(* <<0, 0>> stands for IEEE nan (0 / 0).                                   *)

RECURSIVE Gcd(_, _)
Gcd(a, b) == IF b = 0 THEN a ELSE Gcd(b, a % b)

Abs(x) == IF x < 0 THEN -x ELSE x

NaN == <<0, 0>>

RNorm(n, d) ==
    IF d = 0 THEN NaN
    ELSE LET g == Gcd(Abs(n), Abs(d))
             s == IF d < 0 THEN -1 ELSE 1
         IN  <<s * (n \div g), s * (d \div g)>>

Rat(n) == <<n, 1>>

IsNaN(x) == x[2] = 0

RAdd(x, y) == IF IsNaN(x) \/ IsNaN(y) THEN NaN
              ELSE RNorm(x[1] * y[2] + y[1] * x[2], x[2] * y[2])

RMul(x, y) == IF IsNaN(x) \/ IsNaN(y) THEN NaN
              ELSE RNorm(x[1] * y[1], x[2] * y[2])

\* strengths are non-negative, so a zero divisor (a zero total) only meets a zero dividend
RDiv(x, y) == IF IsNaN(x) \/ IsNaN(y) THEN NaN
              ELSE RNorm(x[1] * y[2], x[2] * y[1])

RECURSIVE RSum(_)
RSum(s) == IF s = <<>> THEN Rat(0) ELSE RAdd(s[1], RSum(Tail(s)))

-----------------------------------------------------------------------------
(* Layer objects *)

\* AtmosphericLayer.__init__: a layer object as its constructor leaves it.
\* id is the object's identity and screen the concrete layer's phase screen.
AtmosphericLayer(id, input_grid, Cn_squared, height, screen) ==
    [id |-> id, input_grid |-> input_grid, Cn_squared |-> Cn_squared,
     height |-> height, t |-> 0, screen |-> screen]

SeqsUpTo(S, n) == UNION {[1..k -> S] : k \in 1..n}

\* sequences of 1..n newly constructed layers, of identities <<gen, 1>>, <<gen, 2>>, ...,
\* with attributes drawn from the given sets; a composite holds at least one
\* layer (line 196 reads layers[0])
NewLayers(gen, n, H, C, S, G) ==
    { [i \in 1..Len(a) |-> AtmosphericLayer(<<gen, i>>, a[i][4], a[i][2], a[i][1], a[i][3])]
      : a \in SeqsUpTo(H \X C \X S \X G, n) }

\* a generation of identities that no layer of the chain carries: the objects
\* of a newly assigned sequence are none of those the chain still refers to
FreshGen(els) == 1 - els[1].id[1]

\* a concrete layer's phase_for: the screen scaled to the wavelength, as a field
LayerPhaseFor(l, wavelength) ==
    [values |-> [p \in 1..Len(l.screen) |-> RDiv(Rat(l.screen[p]), Rat(wavelength))],
     grid |-> l.input_grid]

\* a concrete layer's evolve_until
LayerEvolveUntil(l, time) == [l EXCEPT !.t = time]

\* the realisation a seeded generator draws after `screen`
NextScreen(screen) == CHOOSE s \in Screens : s # screen

\* a concrete layer's reset: a new realisation of the screen
LayerReset(l) == [l EXCEPT !.screen = NextScreen(@)]

\* a concrete layer's Cn_squared setter
LayerSetCn(l, Cn_squared) == [l EXCEPT !.Cn_squared = Cn_squared]

-----------------------------------------------------------------------------
(* Wavefronts: a heap of wavefront objects, a reference being an index.    *)
(* An electric field is the sequence of factors it has been multiplied by. *)

Wavefront(wavelength) == [electric_field |-> <<>>, wavelength |-> wavelength]

\* wf.copy(): a new object with the same field
Copy(heap, ref) == [heap |-> Append(heap, heap[ref]), ref |-> Len(heap) + 1]

\* wf.electric_field *= factor, in place
Multiply(heap, ref, factor) ==
    [heap EXCEPT ![ref].electric_field = Append(@, factor)]

\* exp(sign * 1j * el.phase_for(wavelength)) for a layer, the propagation over
\* el.distance for a propagator
Factor(el, sign, wavelength) == [el |-> el, sign |-> sign, wavelength |-> wavelength]

\* AtmosphericLayer.forward without line 144: the field of the caller's own
\* wavefront is multiplied
AtmosphericLayerForwardInPlace(heap, ref, el) ==
    [heap |-> Multiply(heap, ref, Factor(el, 1, heap[ref].wavelength)), ref |-> ref]

\* AtmosphericLayer.forward, lines 143-146
AtmosphericLayerForward(heap, ref, el) ==
    LET wf == Copy(heap, ref)
    IN  [heap |-> Multiply(wf.heap, wf.ref, Factor(el, 1, heap[ref].wavelength)),
         ref |-> wf.ref]

\* AtmosphericLayer.backward, lines 148-151
AtmosphericLayerBackward(heap, ref, el) ==
    LET wf == Copy(heap, ref)
    IN  [heap |-> Multiply(wf.heap, wf.ref, Factor(el, -1, heap[ref].wavelength)),
         ref |-> wf.ref]

\* FresnelPropagator.forward and backward: a new wavefront, the input untouched
PropagatorApply(heap, ref, el, sign) ==
    [heap |-> Append(heap, [heap[ref] EXCEPT
                 !.electric_field = Append(@, Factor(el, sign, heap[ref].wavelength))]),
     ref |-> Len(heap) + 1]

ElementForward(heap, ref, el) ==
    IF el.kind = "layer" THEN AtmosphericLayerForward(heap, ref, el)
    ELSE PropagatorApply(heap, ref, el, 1)

ElementBackward(heap, ref, el) ==
    IF el.kind = "layer" THEN AtmosphericLayerBackward(heap, ref, el)
    ELSE PropagatorApply(heap, ref, el, -1)

\* lines 308-309: for el in self.elements: wf = el.forward(wf)
RECURSIVE ForwardLoop(_, _, _)
ForwardLoop(heap, ref, els) ==
    IF els = <<>> THEN [heap |-> heap, ref |-> ref]
    ELSE LET wf == ElementForward(heap, ref, els[1])
         IN  ForwardLoop(wf.heap, wf.ref, Tail(els))

\* lines 317-318 without reversed(): the backward operations in chain order
RECURSIVE BackwardLoopInOrder(_, _, _)
BackwardLoopInOrder(heap, ref, els) ==
    IF els = <<>> THEN [heap |-> heap, ref |-> ref]
    ELSE LET wf == ElementBackward(heap, ref, els[1])
         IN  BackwardLoopInOrder(wf.heap, wf.ref, Tail(els))

\* lines 317-318: for el in reversed(self.elements): wf = el.backward(wf)
RECURSIVE BackwardLoop(_, _, _)
BackwardLoop(heap, ref, els) ==
    IF els = <<>> THEN [heap |-> heap, ref |-> ref]
    ELSE LET wf == ElementBackward(heap, ref, els[Len(els)])
         IN  BackwardLoop(wf.heap, wf.ref, SubSeq(els, 1, Len(els) - 1))

\* MultiLayerAtmosphere.forward past the rebuild, lines 307-310
ForwardRun(heap, ref, els) ==
    LET wf == Copy(heap, ref) IN ForwardLoop(wf.heap, wf.ref, els)

\* MultiLayerAtmosphere.backward past the rebuild, lines 316-319
BackwardRun(heap, ref, els) ==
    LET wf == Copy(heap, ref) IN BackwardLoop(wf.heap, wf.ref, els)

-----------------------------------------------------------------------------
(* calculate_propagators *)

Perms(n) == {p \in [1..n -> 1..n] : \A i, j \in 1..n : p[i] = p[j] => i = j}

\* np.argsort(-heights), line 192: the default kind is quicksort, which numpy
\* documents as not stable, so every index order that sorts the heights into
\* descending order is a possible result
Argsort(heights) ==
    {p \in Perms(Len(heights)) :
        \A i \in 1..(Len(heights) - 1) : heights[p[i]] >= heights[p[i + 1]]}

FresnelPropagator(grid, distance) ==
    [kind |-> "prop", id |-> <<>>, distance |-> distance, grid |-> grid]

\* a reference to layer object l as an element of the chain
LayerElement(l) ==
    [kind |-> "layer", id |-> l.id, distance |-> 0, grid |-> l.input_grid]

\* lines 201-205: the loop over enumerate(layer_indices), from position i on
RECURSIVE Interleave(_, _, _, _, _)
Interleave(ls, scint, layer_indices, propagators, i) ==
    IF i > Len(layer_indices) THEN <<>>
    ELSE <<LayerElement(ls[layer_indices[i]])>>
         \o (IF scint /\ i <= Len(propagators) THEN <<propagators[i]>> ELSE <<>>)
         \o Interleave(ls, scint, layer_indices, propagators, i + 1)

\* lines 207-208 with >= for >: a propagator of distance 0 below a layer on the ground
TrailingNonNegative(scint, grid, lowest) ==
    IF scint /\ lowest >= 0 THEN <<FresnelPropagator(grid, lowest)>> ELSE <<>>

\* lines 207-208: the propagator down to the ground
Trailing(scint, grid, lowest) ==
    IF scint /\ lowest > 0 THEN <<FresnelPropagator(grid, lowest)>> ELSE <<>>

\* lines 191-208: the chain built from layers ls with index order layer_indices
BuildElements(ls, scint, layer_indices) ==
    LET n == Len(ls)
        sorted_heights == [i \in 1..n |-> ls[layer_indices[i]].height]
        delta_heights == [i \in 1..(n - 1) |-> sorted_heights[i] - sorted_heights[i + 1]]
        grid == ls[1].input_grid
        propagators == [i \in 1..(n - 1) |-> FresnelPropagator(grid, delta_heights[i])]
    IN  Interleave(ls, scint, layer_indices, propagators, 1)
        \o Trailing(scint, grid, sorted_heights[n])

HeightsOf(ls) == [i \in 1..Len(ls) |-> ls[i].height]

\* every chain calculate_propagators can leave in elements
Chains(ls, scint) == {BuildElements(ls, scint, p) : p \in Argsort(HeightsOf(ls))}

-----------------------------------------------------------------------------
(* MultiLayerAtmosphere *)

NoCall == [op |-> "none", arg |-> 0, raised |-> "none", calls |-> <<>>,
           heap |-> <<>>, result |-> 0]

NoConv == [f |-> "none", x |-> <<>>, wavelength |-> <<>>, y |-> <<>>, back |-> <<>>]

\* __init__, lines 178-183, of a composite of the layers ls
Construct(ls) ==
    /\ layers = ls
    /\ scintillation \in BOOLEAN
    /\ t = 0
    /\ elements \in Chains(layers, scintillation)
    /\ dirty = FALSE
    /\ last = NoCall

Init ==
    /\ \E ls \in NewLayers(0, MaxLayers, SmallHeights, {Rat(1)}, {<<1, 2>>}, {"g1"}) :
          Construct(ls)
    /\ conv = NoConv

\* calculate_propagators called explicitly, lines 185-210
CalculatePropagators ==
    /\ elements' \in Chains(layers, scintillation)
    /\ dirty' = FALSE
    /\ last' = [NoCall EXCEPT !.op = "calculate_propagators"]
    /\ UNCHANGED <<layers, scintillation, t, conv>>

\* layers setter, lines 222-225
SetLayers ==
    /\ layers' \in NewLayers(FreshGen(elements), MaxLayers, SmallHeights,
                             {Rat(1)}, {<<1, 2>>}, {"g1"})
    /\ dirty' = TRUE
    /\ last' = [NoCall EXCEPT !.op = "set_layers"]
    /\ UNCHANGED <<scintillation, elements, t, conv>>

\* what the scintillation setter leaves in _dirty, line 255
ScintillationDirty(old_dirty, old_scintillation, new_scintillation) ==
    new_scintillation # old_scintillation

\* scintillation setter, lines 253-256
SetScintillation ==
    \E s \in BOOLEAN :
        /\ dirty' = ScintillationDirty(dirty, scintillation, s)
        /\ scintillation' = s
        /\ last' = [NoCall EXCEPT !.op = "set_scintillation", !.arg = s]
        /\ UNCHANGED <<layers, elements, t, conv>>

\* lines 304-305 and 313-314: the chain a traversal uses
ChainToTraverse(is_dirty, els, ls, scint) ==
    IF is_dirty THEN Chains(ls, scint) ELSE {els}

\* forward, lines 303-310
Forward ==
    \E wavelength \in BeamWavelengths :
        /\ elements' \in ChainToTraverse(dirty, elements, layers, scintillation)
        /\ dirty' = FALSE
        /\ LET wf == ForwardRun(<<Wavefront(wavelength)>>, 1, elements')
           IN  last' = [NoCall EXCEPT !.op = "forward", !.arg = wavelength,
                                      !.heap = wf.heap, !.result = wf.ref]
        /\ UNCHANGED <<layers, scintillation, t, conv>>

\* backward, lines 312-319
Backward ==
    \E wavelength \in BeamWavelengths :
        /\ elements' \in ChainToTraverse(dirty, elements, layers, scintillation)
        /\ dirty' = FALSE
        /\ LET wf == BackwardRun(<<Wavefront(wavelength)>>, 1, elements')
           IN  last' = [NoCall EXCEPT !.op = "backward", !.arg = wavelength,
                                      !.heap = wf.heap, !.result = wf.ref]
        /\ UNCHANGED <<layers, scintillation, t, conv>>

\* lines 266-268 with the store to _t moved before the loop
EvolveEffectsStoreFirst(ls, time) ==
    <<<<"_t", time>>>> \o [i \in 1..Len(ls) |-> <<"evolve_until", ls[i].id, time>>]

\* lines 266-268 as the effects of evolve_until(time) in program order: one
\* evolve_until call per layer, then the store to _t
EvolveEffects(ls, time) ==
    [i \in 1..Len(ls) |-> <<"evolve_until", ls[i].id, time>>] \o <<<<"_t", time>>>>

\* evolve_until, lines 258-268
EvolveUntil(time, name) ==
    /\ layers' = [i \in 1..Len(layers) |-> LayerEvolveUntil(layers[i], time)]
    /\ t' = time
    /\ last' = [NoCall EXCEPT !.op = name, !.arg = time,
                              !.calls = EvolveEffects(layers, time)]
    /\ UNCHANGED <<scintillation, dirty, elements, conv>>

EvolveUntilCall == \E time \in Times : EvolveUntil(time, "evolve_until")

\* t setter, lines 299-301
SetT == \E time \in Times : EvolveUntil(time, "set_t")

\* reset, lines 212-214
Reset ==
    /\ layers' = [i \in 1..Len(layers) |-> LayerReset(layers[i])]
    /\ last' = [NoCall EXCEPT !.op = "reset",
                   !.calls = [i \in 1..Len(layers) |-> <<"reset", layers[i].id>>]]
    /\ UNCHANGED <<scintillation, dirty, elements, t, conv>>

\* elementwise sum of fields' values, np.sum(unwrapped_phases, axis=0)
RECURSIVE SumFields(_)
SumFields(fields) ==
    IF Len(fields) = 1 THEN fields[1].values
    ELSE LET rest == SumFields(Tail(fields))
         IN  [p \in 1..Len(rest) |-> RAdd(fields[1].values[p], rest[p])]

\* line 240: whether phase_for refuses
PhaseForRefuses(scint) == scint

\* line 243: the layers whose phase_for is called, in call order
PhaseForOrder(ls) == ls

\* line 245 with index 0 for -1: the grid of the first layer's phase
PhaseForGridOfFirst(unwrapped_phases) == unwrapped_phases[1].grid

\* line 245: the grid of the summed phase
PhaseForGrid(unwrapped_phases) == unwrapped_phases[Len(unwrapped_phases)].grid

\* phase_for, lines 227-245
PhaseFor ==
    \E wavelength \in Wavelengths :
        /\ IF PhaseForRefuses(scintillation)
           THEN last' = [NoCall EXCEPT !.op = "phase_for", !.arg = wavelength,
                                       !.raised = "ValueError"]
           ELSE LET called == PhaseForOrder(layers)
                    unwrapped_phases ==
                        [i \in 1..Len(called) |-> LayerPhaseFor(called[i], wavelength)]
                IN  last' = [NoCall EXCEPT !.op = "phase_for", !.arg = wavelength,
                        !.calls = [i \in 1..Len(called) |->
                                      <<"phase_for", called[i].id, wavelength>>],
                        !.result = [values |-> SumFields(unwrapped_phases),
                                    grid |-> PhaseForGrid(unwrapped_phases)]]
        /\ UNCHANGED <<layers, scintillation, dirty, elements, t, conv>>

\* Cn_squared getter, lines 270-274
CnSquared(ls) == RSum([i \in 1..Len(ls) |-> ls[i].Cn_squared])

GetCnSquared ==
    /\ last' = [NoCall EXCEPT !.op = "get_Cn_squared", !.result = CnSquared(layers)]
    /\ UNCHANGED <<layers, scintillation, dirty, elements, t, conv>>

\* line 280 with self.Cn_squared for old_Cn_squared: the total is read again
\* for every layer, after the layers before it have been changed
LayerShareOfRunningTotal(ls, i, old_Cn_squared, Cn_squared) ==
    RMul(RDiv(ls[i].Cn_squared,
              RSum([j \in 1..Len(ls) |-> ls[j].Cn_squared])), Cn_squared)

\* line 280, right-hand side: the new strength of layer i of ls, given the
\* total read at line 278
LayerShare(ls, i, old_Cn_squared, Cn_squared) ==
    RMul(RDiv(ls[i].Cn_squared, old_Cn_squared), Cn_squared)

\* lines 279-280: the loop over the layers, from layer i on
RECURSIVE Redistribute(_, _, _, _)
Redistribute(ls, i, old_Cn_squared, Cn_squared) ==
    IF i > Len(ls) THEN ls
    ELSE Redistribute(
             [ls EXCEPT ![i] = LayerSetCn(@, LayerShare(ls, i, old_Cn_squared, Cn_squared))],
             i + 1, old_Cn_squared, Cn_squared)

\* Cn_squared setter, lines 276-280
SetCnSquared ==
    \E Cn_squared \in CnTargets :
        /\ layers' = Redistribute(layers, 1, CnSquared(layers), Rat(Cn_squared))
        /\ last' = [NoCall EXCEPT !.op = "set_Cn_squared", !.arg = Rat(Cn_squared)]
        /\ UNCHANGED <<scintillation, dirty, elements, t, conv>>

\* forward called on one layer of the composite
LayerForward ==
    \E i \in 1..Len(layers), wavelength \in BeamWavelengths :
        /\ LET wf == AtmosphericLayerForward(<<Wavefront(wavelength)>>, 1,
                                             LayerElement(layers[i]))
           IN  last' = [NoCall EXCEPT !.op = "layer_forward", !.arg = wavelength,
                                      !.heap = wf.heap, !.result = wf.ref]
        /\ UNCHANGED <<layers, scintillation, dirty, elements, t, conv>>

\* backward called on one layer of the composite
LayerBackward ==
    \E i \in 1..Len(layers), wavelength \in BeamWavelengths :
        /\ LET wf == AtmosphericLayerBackward(<<Wavefront(wavelength)>>, 1,
                                              LayerElement(layers[i]))
           IN  last' = [NoCall EXCEPT !.op = "layer_backward", !.arg = wavelength,
                                      !.heap = wf.heap, !.result = wf.ref]
        /\ UNCHANGED <<layers, scintillation, dirty, elements, t, conv>>

-----------------------------------------------------------------------------
(* Strength conversions. A positive real is a monomial: a function from   *)
(* Symbols to rational exponents, the product of the symbols' powers. The  *)
(* symbols "a" and "b" generate the arguments; the others are the          *)
(* constants of the formulas.                                              *)

Symbols == {"a", "b", "0.423", "2pi", "0.98", "pi/180", "3600"}

\* largest exponent of "a" and of "b" in an argument
MaxExponent == 1

One == [s \in Symbols |-> Rat(0)]

Sym(name) == [One EXCEPT ![name] = Rat(1)]

MMul(x, y) == [s \in Symbols |-> RAdd(x[s], y[s])]

MPow(x, e) == [s \in Symbols |-> RMul(x[s], e)]

MDiv(x, y) == MMul(x, MPow(y, Rat(-1)))

\* the arguments: a^i * b^j
Arguments ==
    {MMul(MPow(Sym("a"), Rat(i)), MPow(Sym("b"), Rat(j))) :
        i \in (-MaxExponent)..MaxExponent, j \in (-MaxExponent)..MaxExponent}

\* k = 2 * np.pi / wavelength, lines 416 and 434
WaveNumber(wavelength) == MDiv(Sym("2pi"), wavelength)

\* np.radians and np.degrees
Radians(x) == MMul(x, Sym("pi/180"))

Degrees(x) == MDiv(x, Sym("pi/180"))

\* Cn_squared_from_fried_parameter, lines 401-417
Cn_squared_from_fried_parameter(r0, wavelength) ==
    MDiv(MPow(r0, RNorm(-5, 3)),
         MMul(Sym("0.423"), MPow(WaveNumber(wavelength), Rat(2))))

\* line 435 with the exponent of line 417
fried_parameter_from_Cn_squared_exponent_swapped(Cn_squared, wavelength) ==
    MPow(MMul(MMul(Sym("0.423"), Cn_squared), MPow(WaveNumber(wavelength), Rat(2))),
         RNorm(-5, 3))

\* fried_parameter_from_Cn_squared, lines 419-435
fried_parameter_from_Cn_squared(Cn_squared, wavelength) ==
    MPow(MMul(MMul(Sym("0.423"), Cn_squared), MPow(WaveNumber(wavelength), Rat(2))),
         RNorm(-3, 5))

\* seeing_to_fried_parameter, lines 437-456
seeing_to_fried_parameter(seeing, wavelength) ==
    MDiv(MMul(Sym("0.98"), wavelength), Radians(MDiv(seeing, Sym("3600"))))

\* fried_parameter_to_seeing, lines 458-477
fried_parameter_to_seeing(r0, wavelength) ==
    MMul(Degrees(MDiv(MMul(Sym("0.98"), wavelength), r0)), Sym("3600"))

\* a conversion of the argument conv.x at conv.wavelength, then the opposite
\* conversion of its result at the same wavelength
CnThenFried ==
    /\ conv.f = "none"
    /\ LET y == Cn_squared_from_fried_parameter(conv.x, conv.wavelength)
       IN  conv' = [conv EXCEPT !.f = "Cn_squared_from_fried_parameter", !.y = y,
                       !.back = fried_parameter_from_Cn_squared(y, conv.wavelength)]
    /\ UNCHANGED <<layers, scintillation, dirty, elements, t, last>>

FriedThenCn ==
    /\ conv.f = "none"
    /\ LET y == fried_parameter_from_Cn_squared(conv.x, conv.wavelength)
       IN  conv' = [conv EXCEPT !.f = "fried_parameter_from_Cn_squared", !.y = y,
                       !.back = Cn_squared_from_fried_parameter(y, conv.wavelength)]
    /\ UNCHANGED <<layers, scintillation, dirty, elements, t, last>>

SeeingThenFried ==
    /\ conv.f = "none"
    /\ LET y == seeing_to_fried_parameter(conv.x, conv.wavelength)
       IN  conv' = [conv EXCEPT !.f = "seeing_to_fried_parameter", !.y = y,
                       !.back = fried_parameter_to_seeing(y, conv.wavelength)]
    /\ UNCHANGED <<layers, scintillation, dirty, elements, t, last>>

FriedThenSeeing ==
    /\ conv.f = "none"
    /\ LET y == fried_parameter_to_seeing(conv.x, conv.wavelength)
       IN  conv' = [conv EXCEPT !.f = "fried_parameter_to_seeing", !.y = y,
                       !.back = seeing_to_fried_parameter(y, conv.wavelength)]
    /\ UNCHANGED <<layers, scintillation, dirty, elements, t, last>>

-----------------------------------------------------------------------------
(* Specifications *)

\* every operation of the composite
Next ==
    \/ CalculatePropagators
    \/ SetLayers
    \/ SetScintillation
    \/ Forward
    \/ Backward
    \/ EvolveUntilCall
    \/ SetT
    \/ Reset

Spec == Init /\ [][Next]_vars

\* wavefronts through the composite and through its layers one by one
NextWave ==
    \/ SetLayers
    \/ SetScintillation
    \/ Forward
    \/ Backward
    \/ LayerForward
    \/ LayerBackward

SpecWave == Init /\ [][NextWave]_vars

\* chains built from every sequence of up to MaxInputLayers layers
InitBuild ==
    /\ \E ls \in NewLayers(0, MaxInputLayers, Heights, {Rat(1)}, {<<1, 2>>}, Grids) :
          Construct(ls)
    /\ conv = NoConv

NextBuild == CalculatePropagators

SpecBuild == InitBuild /\ [][NextBuild]_vars

\* the aggregate strength of layers of every strength
InitCn ==
    /\ \E ls \in NewLayers(0, MaxInputLayers, {0}, {Rat(c) : c \in CnValues},
                           {<<1, 2>>}, {"g1"}) :
          Construct(ls)
    /\ conv = NoConv

NextCn ==
    \/ GetCnSquared
    \/ SetCnSquared

SpecCn == InitCn /\ [][NextCn]_vars

\* the summed phase of layers of every screen, grid and height
InitPhase ==
    /\ \E ls \in NewLayers(0, MaxLayers, SmallHeights, {Rat(1)}, Screens, Grids) :
          Construct(ls)
    /\ conv = NoConv

NextPhase ==
    \/ PhaseFor
    \/ SetScintillation

SpecPhase == InitPhase /\ [][NextPhase]_vars

\* the conversions of every argument
InitConv ==
    /\ \E ls \in NewLayers(0, 1, {0}, {Rat(1)}, {<<1, 2>>}, {"g1"}) :
          Construct(ls) /\ scintillation = FALSE
    /\ \E x \in Arguments, wavelength \in Arguments :
          conv = [NoConv EXCEPT !.x = x, !.wavelength = wavelength]

NextConv ==
    \/ CnThenFried
    \/ FriedThenCn
    \/ SeeingThenFried
    \/ FriedThenSeeing

SpecConv == InitConv /\ [][NextConv]_vars

-----------------------------------------------------------------------------
(* Properties *)

IndexOfId(ls, id) == CHOOSE i \in 1..Len(ls) : ls[i].id = id

HeightOfId(ls, id) == ls[IndexOfId(ls, id)].height

\* position in a chain of its i-th layer
LayerPosition(scint, i) == IF scint THEN 2 * i - 1 ELSE i

\* els is a reference chain of the layers ls: every layer once, in descending
\* height; with scintillation a propagator over the height difference between
\* consecutive layers and one over the lowest height iff that is positive;
\* without, no propagator
IsReferenceChain(els, ls, scint) ==
    LET n == Len(ls)
        layer(i) == els[LayerPosition(scint, i)]
        h(i) == HeightOfId(ls, layer(i).id)
        trailing == scint /\ h(n) > 0
    IN  /\ Len(els) >= LayerPosition(scint, n)
        /\ \A i \in 1..n :
              layer(i).kind = "layer" /\ \E j \in 1..n : ls[j].id = layer(i).id
        /\ \A j \in 1..n : Cardinality({i \in 1..n : layer(i).id = ls[j].id}) = 1
        /\ \A i \in 1..(n - 1) : h(i) >= h(i + 1)
        /\ Len(els) = LayerPosition(scint, n) + (IF trailing THEN 1 ELSE 0)
        /\ scint => \A i \in 1..(n - 1) :
              els[2 * i].kind = "prop" /\ els[2 * i].distance = h(i) - h(i + 1)
        /\ trailing => els[2 * n].kind = "prop" /\ els[2 * n].distance = h(n)

Built == last.op \in {"none", "calculate_propagators"}

\* C3: construction and calculate_propagators leave in elements the reference
\* chain of the layers and the scintillation flag, for every sequence of
\* heights
C3_ChainCorrect == Built => IsReferenceChain(elements, layers, scintillation)

\* heights [0, 5, 10] with scintillation: layer, propagator, layer, propagator, layer
C3_Witness ==
    /\ last.op = "calculate_propagators"
    /\ scintillation
    /\ HeightsOf(layers) = <<0, 5, 10>>
    /\ [i \in 1..Len(elements) |-> <<elements[i].kind, elements[i].distance>>]
         = <<<<"layer", 0>>, <<"prop", 5>>, <<"layer", 0>>, <<"prop", 5>>, <<"layer", 0>>>>

ResultField == last.heap[last.result].electric_field

\* the chain the last forward or backward call went through, read off the
\* factors of the field it returned
TraversedChain ==
    IF last.op = "forward" THEN [i \in 1..Len(ResultField) |-> ResultField[i].el]
    ELSE [i \in 1..Len(ResultField) |-> ResultField[Len(ResultField) + 1 - i].el]

Rebuilds == {"forward", "backward", "calculate_propagators"}

\* C1: a forward or backward call goes through a chain that
\* calculate_propagators builds from the current layers and scintillation
C1_NoStaleChain ==
    last.op \in {"forward", "backward"} =>
        TraversedChain \in Chains(layers, scintillation)

\* C2: dirty is false after construction, true after layers is assigned or
\* scintillation is changed, stays true over every call that is no traversal
\* and no rebuild, and is false after a traversal or a rebuild
C2_DirtyFlag ==
    /\ last.op = "none" => ~dirty
    /\ [][/\ last'.op = "set_layers" => dirty'
          /\ (last'.op = "set_scintillation" /\ scintillation' # scintillation) => dirty'
          /\ (dirty /\ last'.op \notin Rebuilds) => dirty'
          /\ last'.op \in Rebuilds => ~dirty']_vars

\* C8: setting t or calling evolve_until evolves every layer once, in sequence
\* order, then stores t, and changes nothing else of the composite
C8_EvolveUntil ==
    [][last'.op \in {"set_t", "evolve_until"} =>
        LET time == last'.arg
            n == Len(layers)
        IN  /\ Len(last'.calls) = n + 1
            /\ \A i \in 1..n : last'.calls[i] = <<"evolve_until", layers[i].id, time>>
            /\ last'.calls[n + 1] = <<"_t", time>>
            /\ t' = time
            /\ layers' = [i \in 1..n |-> [layers[i] EXCEPT !.t = time]]
            /\ UNCHANGED <<dirty, elements, scintillation>>]_vars

\* t set while a rebuild is pending
C8_Witness ==
    /\ last.op = "set_t"
    /\ dirty
    /\ Len(layers) = 2
    /\ t = 1
    /\ elements \notin Chains(layers, scintillation)

\* C10: forward multiplies by the forward factor of every element in chain
\* order, backward by the backward factor of every element in the reverse
\* order, on the chain rebuilt if it was dirty
C10_TraversalOrder ==
    [][last'.op \in {"forward", "backward"} =>
        LET n == Len(elements')
            field == last'.heap[last'.result].electric_field
        IN  /\ elements' \in (IF dirty THEN Chains(layers, scintillation) ELSE {elements})
            /\ last'.op = "forward" =>
                  field = [i \in 1..n |-> Factor(elements'[i], 1, last'.arg)]
            /\ last'.op = "backward" =>
                  field = [i \in 1..n |-> Factor(elements'[n + 1 - i], -1, last'.arg)]]_vars

\* backward through layer, propagator, layer
C10_Witness ==
    /\ last.op = "backward"
    /\ Len(elements) = 3
    /\ Len(ResultField) = 3
    /\ ResultField[1].el.kind = "layer"
    /\ ResultField[1].el # ResultField[3].el

Traversals == {"forward", "backward", "layer_forward", "layer_backward"}

\* C6: after forward or backward, of a layer or of the composite, the
\* caller's wavefront is as it was and the result is another object
C6_NonMutation ==
    last.op \in Traversals =>
        /\ last.heap[1] = Wavefront(last.arg)
        /\ last.result # 1

\* forward through a chain of one element
C6_Witness ==
    /\ last.op = "forward"
    /\ Len(elements) = 1
    /\ Len(ResultField) = 1
    /\ last.heap[1].electric_field = <<>>

\* C4: the aggregate getter returns the sum of the layers' strengths, and
\* setting the aggregate to X when the total T is positive leaves old_i / T * X
\* in every layer i and X as the total
C4_Redistribution ==
    [][/\ last'.op = "get_Cn_squared" =>
              last'.result = RSum([i \in 1..Len(layers) |-> layers[i].Cn_squared])
       /\ last'.op = "set_Cn_squared" =>
              LET total == RSum([i \in 1..Len(layers) |-> layers[i].Cn_squared])
                  X == last'.arg
              IN  (~IsNaN(total) /\ total[1] > 0) =>
                      /\ Len(layers') = Len(layers)
                      /\ \A i \in 1..Len(layers) :
                            layers'[i] = [layers[i] EXCEPT
                                !.Cn_squared = RMul(RDiv(layers[i].Cn_squared, total), X)]
                      /\ RSum([i \in 1..Len(layers') |-> layers'[i].Cn_squared]) = X]_vars

\* a total of 4 over strengths 1 and 3 set to 2: strengths 1/2 and 3/2
C4_Witness ==
    /\ last.op = "set_Cn_squared"
    /\ last.arg = Rat(2)
    /\ Len(layers) = 2
    /\ layers[1].Cn_squared = <<1, 2>>
    /\ layers[2].Cn_squared = <<3, 2>>

\* the sum over the layers ls of their phases at grid point p
PhaseSumAt(ls, wavelength, p) ==
    RSum([i \in 1..Len(ls) |-> LayerPhaseFor(ls[i], wavelength).values[p]])

\* C5: phase_for raises ValueError exactly when scintillation is set, then
\* calls no layer; otherwise it calls the layers in sequence order and
\* returns the elementwise sum of their phases on the last layer's grid; it
\* changes nothing of the composite
C5_PhaseFor ==
    [][last'.op = "phase_for" =>
        LET wavelength == last'.arg
            n == Len(layers)
        IN  /\ UNCHANGED <<layers, scintillation, elements, dirty, t>>
            /\ (last'.raised = "ValueError") <=> scintillation
            /\ scintillation => last'.calls = <<>>
            /\ ~scintillation =>
                  /\ last'.raised = "none"
                  /\ last'.calls =
                        [i \in 1..n |-> <<"phase_for", layers[i].id, wavelength>>]
                  /\ last'.result.grid = layers[n].input_grid
                  /\ last'.result.values =
                        [p \in 1..Len(layers[1].screen) |->
                            PhaseSumAt(layers, wavelength, p)]]_vars

\* the phase of a lower layer on grid g1 followed by a higher layer on grid g2
C5_Witness ==
    /\ last.op = "phase_for"
    /\ ~scintillation
    /\ Len(layers) = 2
    /\ layers[1].height < layers[2].height
    /\ layers[1].input_grid = "g1"
    /\ layers[2].input_grid = "g2"
    /\ layers[1].screen # layers[2].screen
    /\ last.result.grid = "g2"

\* C7: each conversion followed by its opposite at the same wavelength
\* returns the argument
C7_RoundTrip == conv.f # "none" => conv.back = conv.x

\* a Fried parameter a / b at wavelength b, through Cn^2 and back
C7_Witness ==
    /\ conv.f = "Cn_squared_from_fried_parameter"
    /\ conv.x = MDiv(Sym("a"), Sym("b"))
    /\ conv.wavelength = Sym("b")
    /\ conv.y # conv.x
    /\ conv.back = conv.x

=============================================================================
